---- MODULE Spec2Model ----
(***************************************************************************)
(* Chit-fund server: the request handlers of server/routes.ts and          *)
(* server/auth.ts over the entity store of server/storage.ts (MemStorage)  *)
(* and server/db/mongo-storage.ts (MongoStorage).                          *)
(*                                                                         *)
(* On MemStorage every await of a handler resolves in the same tick, so a  *)
(* handler is one atomic action.  On MongoStorage every await is a round   *)
(* trip to the database and handlers interleave at their awaits.           *)
(* Records keep the fields the handlers read or write; dates, names,       *)
(* phone numbers and amounts that no handler inspects are left out.        *)
(***************************************************************************)
EXTENDS Integers, Sequences, FiniteSets, TLC

\* ---------------------------------------------------------------- bounds
MaxUsers == 3
MaxGroups == 2
MaxMemberId == 2
MaxAuctions == 1
MaxBids == 1
MaxPayments == 1
MaxRequests == 2

\* ------------------------------------------------------- encoded values
\* null (and a missing optional field) of the source; ids start at 1
Null == 0
\* a request without a session: req.isAuthenticated() is false
Anonymous == 0
\* a field a partial update does not carry
Absent == -1
AbsentStatus == "absent"
\* what a getter returns for an id it does not hold
undefined == [id |-> Null]

ManagerRole == "manager"
CustomerRole == "customer"
AuctionStatuses == {"scheduled", "completed", "cancelled"}
PaymentStatuses == {"paid", "pending", "overdue"}

VARIABLES
    users,                    \* MemStorage.users / the User collection, key = index
    chitGroups,               \* MemStorage.chitGroups, key = index
    chitGroupMembers,         \* MemStorage.chitGroupMembers / the ChitGroupMember collection
    chitGroupMemberIdCounter, \* MemStorage.chitGroupMemberIdCounter
    auctions,                 \* MemStorage.auctions, key = index
    bids,                     \* MemStorage.bids, key = index
    payments,                 \* MemStorage.payments, key = index
    notifications,            \* MemStorage.notifications, key = index
    Counter,                  \* the Counter collection of mongoose.ts: model -> count
    requests,                 \* the add-member requests in flight on MongoStorage
    connectionStatus,         \* MongoStorage.connectionStatus
    connectionTimeout,        \* the 4 s timer of the MongoStorage constructor
    connectToMongoDB,         \* the promise of connectToMongoDB()
    fallbackTimer,            \* the 10 s timer of storage.ts
    fallbackInstalled,        \* storage's methods are those of a MemStorage
    mongoReachable,           \* the database answers (the environment)
    resp                      \* the last request and the response to it

vars == <<users, chitGroups, chitGroupMembers, chitGroupMemberIdCounter,
          auctions, bids, payments, notifications, Counter, requests,
          connectionStatus, connectionTimeout, connectToMongoDB, fallbackTimer,
          fallbackInstalled, mongoReachable, resp>>

memberVars == <<chitGroupMembers, chitGroupMemberIdCounter>>
auctionVars == <<auctions, bids>>
paymentVars == <<payments, notifications>>
mongoVars == <<Counter, requests>>
bootVars == <<connectionStatus, connectionTimeout, connectToMongoDB, fallbackTimer,
              fallbackInstalled, mongoReachable>>

\* ------------------------------------------------------------- responses
\* op: the route; caller: the session's user id; arg, arg2: the route's
\* parameters (or the ids the body names); out: <<HTTP status, message>>;
\* groups: the chit group records in the body.
Response(op, caller, arg, arg2, out, groups) ==
    [op |-> op, caller |-> caller, arg |-> arg, arg2 |-> arg2,
     status |-> out[1], message |-> out[2], groups |-> groups]

Ok(status) == <<status, "">>
Succeeded(out) == out[1] \in {200, 201, 204}

\* validateRequest: the body parses, or the zod error is the message
validateRequest(valid) ==
    IF valid THEN Ok(0) ELSE <<400, "Invalid request data">>

\* ---------------------------------------------------------- entity store
getUser(id) ==
    IF id \in 1..Len(users) THEN users[id] ELSE undefined

getUserByUsername(username) ==
    {users[i] : i \in {j \in 1..Len(users) : users[j].username = username}}

\* scrypt: the derived key, which two different (password, salt) pairs do
\* not share
scrypt(password, salt) ==
    <<password, salt>>

\* `${buf.toString("hex")}.${salt}`, salt being the outcome of randomBytes
hashPassword(password, salt) ==
    [hashed |-> scrypt(password, salt), salt |-> salt]

\* the stored string is split at the dot and the supplied password is
\* derived again with the stored salt
comparePasswords(supplied, stored) ==
    scrypt(supplied, stored.salt) = stored.hashed

\* managerId: null for managers, the provided value (or null) for customers;
\* password: the hashed password; isFirstLogin: true, the callers send it so
createUser(username, password, role, managerId) ==
    [id |-> Len(users) + 1, username |-> username, password |-> password,
     role |-> role, isFirstLogin |-> TRUE,
     managerId |-> IF role = CustomerRole THEN managerId ELSE Null]

\* { ...user, ...userData } with the two fields the reset handlers send
updateUser(id, userData) ==
    [users EXCEPT ![id].password = userData.password,
                  ![id].isFirstLogin = userData.isFirstLogin]

getChitGroup(id) ==
    IF id \in 1..Len(chitGroups) THEN chitGroups[id] ELSE undefined

getAllChitGroups ==
    {chitGroups[i] : i \in 1..Len(chitGroups)}

\* isActive defaults to true; the numbers are stored as the body has them
createChitGroup(chitGroupData, createdBy) ==
    [id |-> Len(chitGroups) + 1, createdBy |-> createdBy,
     isActive |-> IF chitGroupData.hasIsActive THEN chitGroupData.isActive ELSE TRUE,
     value |-> chitGroupData.value, duration |-> chitGroupData.duration,
     membersCount |-> chitGroupData.membersCount]

\* { ...chitGroup, ...processedData }: the fields the patch carries replace
\* the stored ones
updateChitGroup(id, chitGroupData) ==
    [chitGroups EXCEPT ![id] =
        [id |-> @.id, createdBy |-> @.createdBy,
         isActive |-> IF chitGroupData.hasIsActive THEN chitGroupData.isActive
                      ELSE @.isActive,
         value |-> IF chitGroupData.value = Absent THEN @.value
                   ELSE chitGroupData.value,
         duration |-> IF chitGroupData.duration = Absent THEN @.duration
                      ELSE chitGroupData.duration,
         membersCount |-> IF chitGroupData.membersCount = Absent THEN @.membersCount
                          ELSE chitGroupData.membersCount]]

getChitGroupMembers(chitGroupId) ==
    {m \in chitGroupMembers : m.chitGroupId = chitGroupId}

\* a mutant of getChitGroupsByUser: every chit group, whoever asks
getChitGroupsByUserUnfiltered(userId) ==
    getAllChitGroups

getChitGroupsByUser(userId) ==
    {chitGroups[m.chitGroupId] :
        m \in {e \in chitGroupMembers :
                  e.userId = userId /\ e.chitGroupId \in 1..Len(chitGroups)}}

\* MongoStorage.getChitGroupsByUser: the user's memberships, then the chit
\* groups whose id is $in their chitGroupIds
MongoGetChitGroupsByUser(userId) ==
    LET memberships == {m \in chitGroupMembers : m.userId = userId}
        chitGroupIds == {m.chitGroupId : m \in memberships}
    IN  IF chitGroupIds = {} THEN {}
        ELSE {g \in getAllChitGroups : g.id \in chitGroupIds}

addMemberToChitGroup(id, chitGroupId, userId) ==
    [id |-> id, chitGroupId |-> chitGroupId, userId |-> userId]

\* the first entry of the map (lowest id) that matches is deleted
removeMemberFromChitGroup(chitGroupId, userId) ==
    LET matching == {m \in chitGroupMembers :
                        m.chitGroupId = chitGroupId /\ m.userId = userId}
        first == CHOOSE m \in matching : \A o \in matching : m.id <= o.id
    IN  chitGroupMembers \ {first}

getAuction(id) ==
    IF id \in 1..Len(auctions) THEN auctions[id] ELSE undefined

\* winner fields default to null; the status is the one the body carries
createAuction(chitGroupId, status, winnerUserId, winningBid) ==
    [id |-> Len(auctions) + 1, chitGroupId |-> chitGroupId, status |-> status,
     winnerUserId |-> winnerUserId, winningBid |-> winningBid]

\* { ...auction, ...auctionData }
updateAuction(id, auctionData) ==
    [auctions EXCEPT ![id] =
        [id |-> @.id,
         chitGroupId |-> IF auctionData.chitGroupId = Absent
                         THEN @.chitGroupId ELSE auctionData.chitGroupId,
         status |-> IF auctionData.status = AbsentStatus
                    THEN @.status ELSE auctionData.status,
         winnerUserId |-> IF auctionData.winnerUserId = Absent
                          THEN @.winnerUserId ELSE auctionData.winnerUserId,
         winningBid |-> IF auctionData.winningBid = Absent
                        THEN @.winningBid ELSE auctionData.winningBid]]

createBid(auctionId, userId) ==
    [id |-> Len(bids) + 1, auctionId |-> auctionId, userId |-> userId]

createPayment(chitGroupId, userId, status) ==
    [id |-> Len(payments) + 1, chitGroupId |-> chitGroupId, userId |-> userId,
     status |-> status]

\* { ...payment, ...paymentData }, stored under the same key
updatePayment(id, paymentData) ==
    [payments EXCEPT ![id] =
        [id |-> IF paymentData.id = Absent THEN @.id ELSE paymentData.id,
         chitGroupId |-> IF paymentData.chitGroupId = Absent
                         THEN @.chitGroupId ELSE paymentData.chitGroupId,
         userId |-> IF paymentData.userId = Absent
                    THEN @.userId ELSE paymentData.userId,
         status |-> IF paymentData.status = AbsentStatus
                    THEN @.status ELSE paymentData.status]]

createNotification(userId, type) ==
    [id |-> Len(notifications) + 1, userId |-> userId, type |-> type,
     isRead |-> FALSE]

getNotificationsByUser(userId) ==
    {notifications[i] : i \in {j \in 1..Len(notifications) :
                                  notifications[j].userId = userId}}

\* MemStorage.markNotificationAsRead: the store it leaves and the boolean
\* it returns, true whenever the notification exists
markNotificationAsRead(id) ==
    IF id \notin 1..Len(notifications)
    THEN [notifications |-> notifications, success |-> FALSE]
    ELSE [notifications |-> [notifications EXCEPT ![id].isRead = TRUE],
          success |-> TRUE]

\* MongoStorage.markNotificationAsRead: updateOne with $set, and
\* modifiedCount > 0, the number of documents the update changed
MongoMarkNotificationAsRead(id) ==
    LET matched == {i \in 1..Len(notifications) : notifications[i].id = id}
        modifiedCount == Cardinality({i \in matched : notifications[i].isRead # TRUE})
    IN  [notifications |->
            [i \in 1..Len(notifications) |->
                IF i \in matched THEN [notifications[i] EXCEPT !.isRead = TRUE]
                ELSE notifications[i]],
         success |-> modifiedCount > 0]

\* ------------------------------------------------------------ middleware
\* passport's session: the id deserializes to a stored user
isAuthenticated(caller) ==
    caller # Anonymous /\ caller \in 1..Len(users)

\* what isManager answers with, Ok(0) when it calls next()
isManager(caller) ==
    IF ~isAuthenticated(caller) THEN <<401, "Unauthorized">>
    ELSE IF users[caller].role # ManagerRole
    THEN <<403, "Forbidden - Manager access required">>
    ELSE Ok(0)

\* members.some(member => member.userId === userId)
isMember(chitGroupId, userId) ==
    \E m \in getChitGroupMembers(chitGroupId) : m.userId = userId

\* ---------------------------------------------------------- request inputs
\* the sessions a request can carry: none, or that of a stored user
Callers == {Anonymous} \cup (1..Len(users))
Managers == {u \in 1..Len(users) : users[u].role = ManagerRole}
Customers == {u \in 1..Len(users) : users[u].role = CustomerRole}
UserIds == 1..MaxUsers
GroupIds == 1..MaxGroups
AuctionIds == 1..MaxAuctions
PaymentIds == 1..MaxPayments
\* the role a body of POST /api/register carries: req.body is not parsed
\* against a schema, so any string can be sent
BodyRoles == {ManagerRole, CustomerRole, "admin"}
\* the bodies of POST /api/chitgroups that insertChitGroupSchema parses: the
\* numbers are integers, of either sign and of any size
ChitGroupBodies ==
    [hasIsActive : BOOLEAN, isActive : BOOLEAN, value : {-5, 100},
     duration : {12, 61}, membersCount : {1, 20}]
\* those of them an ordinary client sends
OrdinaryChitGroupBodies ==
    {d \in ChitGroupBodies :
        d.hasIsActive /\ d.value = 100 /\ d.duration = 12 /\ d.membersCount = 20}
\* the bodies of PUT /api/chitgroups/:id that insertChitGroupSchema.partial()
\* parses: any part of a body
ChitGroupPatches ==
    [hasIsActive : BOOLEAN, isActive : BOOLEAN, value : {Absent, -5, 100},
     duration : {Absent, 61}, membersCount : {Absent, 1}]
\* those of them that carry isActive or nothing
IsActivePatches ==
    {d \in ChitGroupPatches :
        d.value = Absent /\ d.duration = Absent /\ d.membersCount = Absent}
\* the passwords clients send and the salts randomBytes gives
Passwords == {1, 2}
Salts == {1, 2}
\* the temporary password an account is created with, and its salt
FirstPassword == CHOOSE p \in Passwords : \A q \in Passwords : p <= q
FirstSalt == CHOOSE p \in Salts : \A q \in Salts : p <= q
\* the username a client picks: the first one ever used, or a fresh one
Usernames == {1, Len(users) + 1}

\* ------------------------------------------------- POST /api/register
PostRegister(caller, username, password, salt, role, managerId) ==
    /\ Len(users) < MaxUsers
    /\ LET auth == isAuthenticated(caller)
           callerIsManager == auth /\ users[caller].role = ManagerRole
           out ==
               IF auth /\ ~callerIsManager
               THEN <<403, "Only managers can register new users">>
               ELSE IF role = CustomerRole /\ ~callerIsManager
               THEN <<403, "Only managers can create customer accounts">>
               ELSE IF role = ManagerRole /\ auth
               THEN <<403, "Cannot create manager accounts while logged in">>
               ELSE IF getUserByUsername(username) # {}
               THEN <<400, "Username already exists">>
               ELSE Ok(201)
       IN  /\ users' = IF Succeeded(out)
                       THEN Append(users, createUser(username,
                                       hashPassword(password, salt), role, managerId))
                       ELSE users
           /\ resp' = Response("POST /api/register", caller, 0, 0, out, {})
    /\ UNCHANGED <<chitGroups, memberVars, auctionVars, paymentVars, mongoVars,
                   bootVars>>

\* ------------------------------------------------- POST /api/customers
PostCustomers(caller, username, password, salt, valid) ==
    /\ Len(users) < MaxUsers
    /\ LET out ==
               IF isManager(caller) # Ok(0) THEN isManager(caller)
               ELSE IF ~valid THEN validateRequest(valid)
               ELSE IF getUserByUsername(username) # {}
               THEN <<400, "Username already exists">>
               ELSE Ok(201)
       IN  /\ users' = IF Succeeded(out)
                       THEN Append(users, createUser(username,
                                       hashPassword(password, salt), CustomerRole, caller))
                       ELSE users
           /\ resp' = Response("POST /api/customers", caller, 0, 0, out, {})
    /\ UNCHANGED <<chitGroups, memberVars, auctionVars, paymentVars, mongoVars,
                   bootVars>>

\* ------------------------------------------------- POST /api/login
\* LocalStrategy: the user of that name, then comparePasswords
PostLogin(username, password) ==
    /\ LET found == getUserByUsername(username)
           user == CHOOSE u \in found : \A o \in found : u.id <= o.id
           out == IF found = {} THEN <<401, "Unauthorized">>
                  ELSE IF ~comparePasswords(password, user.password)
                  THEN <<401, "Unauthorized">>
                  ELSE Ok(200)
       IN  resp' = Response("POST /api/login", Anonymous, username, password, out, {})
    /\ UNCHANGED <<users, chitGroups, memberVars, auctionVars, paymentVars, mongoVars,
                   bootVars>>

\* ------------------------------------------------- POST /api/reset-password
\* the session's user gets the new password; the body has no other field
PostResetPassword(caller, newPassword, salt) ==
    /\ LET out == IF ~isAuthenticated(caller) THEN <<401, "Not authenticated">>
                  ELSE Ok(200)
       IN  /\ users' = IF Succeeded(out)
                       THEN updateUser(caller,
                                [password |-> hashPassword(newPassword, salt),
                                 isFirstLogin |-> FALSE])
                       ELSE users
           /\ resp' = Response("POST /api/reset-password", caller, caller,
                               [currentPassword |-> Null, newPassword |-> newPassword],
                               out, {})
    /\ UNCHANGED <<chitGroups, memberVars, auctionVars, paymentVars, mongoVars,
                   bootVars>>

\* ------------------------------------------------- POST /api/users/:userId/reset-password
\* a mutant of ResetPasswordData: the new credential is the current password's
ResetPasswordDataUnchanged(currentPassword, newPassword, salt) ==
    [password |-> hashPassword(currentPassword, salt), isFirstLogin |-> FALSE]

\* what the handler passes to updateUser
ResetPasswordData(currentPassword, newPassword, salt) ==
    [password |-> hashPassword(newPassword, salt), isFirstLogin |-> FALSE]

\* no session is needed; a missing field is Null
PostUsersResetPassword(userId, currentPassword, newPassword, salt) ==
    /\ LET user == getUser(userId)
           out ==
               IF userId = Null \/ currentPassword = Null \/ newPassword = Null
               THEN <<400, "Missing required fields">>
               ELSE IF user.id = Null THEN <<404, "User not found">>
               ELSE IF ~comparePasswords(currentPassword, user.password)
               THEN <<400, "Current password is incorrect">>
               ELSE Ok(200)
       IN  /\ users' = IF Succeeded(out)
                       THEN updateUser(userId,
                                ResetPasswordData(currentPassword, newPassword, salt))
                       ELSE users
           /\ resp' = Response("POST /api/users/:userId/reset-password", Anonymous,
                               userId,
                               [currentPassword |-> currentPassword,
                                newPassword |-> newPassword],
                               out, {})
    /\ UNCHANGED <<chitGroups, memberVars, auctionVars, paymentVars, mongoVars,
                   bootVars>>

\* ------------------------------------------------- GET /api/chitgroups
GetChitGroups(caller) ==
    /\ resp' =
         IF ~isAuthenticated(caller)
         THEN Response("GET /api/chitgroups", caller, 0, 0,
                       <<401, "Unauthorized">>, {})
         ELSE IF users[caller].role = ManagerRole
         THEN Response("GET /api/chitgroups", caller, 0, 0, Ok(200),
                       {g \in getAllChitGroups : g.createdBy = caller})
         ELSE Response("GET /api/chitgroups", caller, 0, 0, Ok(200),
                       getChitGroupsByUser(caller))
    /\ UNCHANGED <<users, chitGroups, memberVars, auctionVars, paymentVars, mongoVars,
                   bootVars>>

\* the same handler over MongoStorage
GetChitGroupsOnMongo(caller) ==
    /\ resp' =
         IF ~isAuthenticated(caller)
         THEN Response("GET /api/chitgroups", caller, 0, 0,
                       <<401, "Unauthorized">>, {})
         ELSE IF users[caller].role = ManagerRole
         THEN Response("GET /api/chitgroups", caller, 0, 0, Ok(200),
                       {g \in getAllChitGroups : g.createdBy = caller})
         ELSE Response("GET /api/chitgroups", caller, 0, 0, Ok(200),
                       MongoGetChitGroupsByUser(caller))
    /\ UNCHANGED <<users, chitGroups, memberVars, auctionVars, paymentVars, mongoVars,
                   bootVars>>

\* ------------------------------------------------- GET /api/chitgroups/:id
GetChitGroup(caller, id) ==
    /\ LET chitGroup == getChitGroup(id)
           out ==
               IF ~isAuthenticated(caller) THEN <<401, "Unauthorized">>
               ELSE IF chitGroup.id = Null THEN <<404, "Chit group not found">>
               ELSE IF users[caller].role = ManagerRole
               THEN (IF chitGroup.createdBy # caller
                     THEN <<403, "You can only access chit groups you've created">>
                     ELSE Ok(200))
               ELSE (IF ~isMember(id, caller)
                     THEN <<403, "You are not a member of this chit group">>
                     ELSE Ok(200))
       IN  resp' = Response("GET /api/chitgroups/:id", caller, id, 0, out,
                            IF Succeeded(out) THEN {chitGroup} ELSE {})
    /\ UNCHANGED <<users, chitGroups, memberVars, auctionVars, paymentVars, mongoVars,
                   bootVars>>

\* ------------------------------------------------- GET /api/debug/chitgroup-members
GetDebugChitgroupMembers(caller) ==
    /\ resp' =
         IF ~isAuthenticated(caller)
         THEN Response("GET /api/debug/chitgroup-members", caller, 0, 0,
                       <<401, "Unauthorized">>, {})
         ELSE IF users[caller].role # ManagerRole
         THEN Response("GET /api/debug/chitgroup-members", caller, 0, 0,
                       <<403, "Only managers can access this endpoint">>, {})
         ELSE Response("GET /api/debug/chitgroup-members", caller, 0, 0, Ok(200),
                       getAllChitGroups)
    /\ UNCHANGED <<users, chitGroups, memberVars, auctionVars, paymentVars, mongoVars,
                   bootVars>>

\* ------------------------------------------------- POST /api/chitgroups
PostChitGroups(caller, valid, chitGroupData) ==
    /\ Len(chitGroups) < MaxGroups
    /\ LET out ==
               IF isManager(caller) # Ok(0) THEN isManager(caller)
               ELSE IF ~valid THEN validateRequest(valid)
               ELSE Ok(201)
           chitGroup == createChitGroup(chitGroupData, caller)
       IN  /\ chitGroups' = IF Succeeded(out) THEN Append(chitGroups, chitGroup)
                            ELSE chitGroups
           /\ resp' = Response("POST /api/chitgroups", caller, 0, 0, out,
                               IF Succeeded(out) THEN {chitGroup} ELSE {})
    /\ UNCHANGED <<users, memberVars, auctionVars, paymentVars, mongoVars, bootVars>>

\* ------------------------------------------------- PUT /api/chitgroups/:id
PutChitGroup(caller, id, valid, chitGroupData) ==
    /\ LET out ==
               IF isManager(caller) # Ok(0) THEN isManager(caller)
               ELSE IF getChitGroup(id).id = Null THEN <<404, "Chit group not found">>
               ELSE IF ~valid THEN validateRequest(valid)
               ELSE Ok(200)
           updated == updateChitGroup(id, chitGroupData)
       IN  /\ chitGroups' = IF Succeeded(out) THEN updated ELSE chitGroups
           /\ resp' = Response("PUT /api/chitgroups/:id", caller, id, 0, out,
                               IF Succeeded(out) THEN {updated[id]} ELSE {})
    /\ UNCHANGED <<users, memberVars, auctionVars, paymentVars, mongoVars, bootVars>>

\* ------------------------------------------------- POST /api/chitgroups/:id/members
\* the checks on the group and on the body, up to validateRequest
AddMemberGroupChecks(caller, id, valid) ==
    LET chitGroup == getChitGroup(id)
    IN  IF chitGroup.id = Null THEN <<404, "Chit group not found">>
        ELSE IF chitGroup.createdBy # caller
        THEN <<403, "You can only add members to chit groups you've created">>
        ELSE validateRequest(valid)

\* the check on the user the body names
AddMemberUserChecks(caller, userId) ==
    LET user == getUser(userId)
    IN  IF user.id = Null THEN <<404, "User not found">>
        ELSE IF user.role = CustomerRole /\ user.managerId # caller
        THEN <<403, "You can only add customers you manage to chit groups">>
        ELSE Ok(0)

\* a mutant of AddMemberAlreadyChecks: the handler without its duplicate check
AddMemberAlreadyChecksSkipped(id, userId) ==
    Ok(0)

\* the duplicate check: isAlreadyMember
AddMemberAlreadyChecks(id, userId) ==
    IF isMember(id, userId)
    THEN <<400, "User is already a member of this chit group">>
    ELSE Ok(0)

PostChitGroupMembers(caller, id, valid, userId) ==
    /\ chitGroupMemberIdCounter <= MaxMemberId
    /\ LET out ==
               IF isManager(caller) # Ok(0) THEN isManager(caller)
               ELSE IF AddMemberGroupChecks(caller, id, valid) # Ok(0)
               THEN AddMemberGroupChecks(caller, id, valid)
               ELSE IF AddMemberUserChecks(caller, userId) # Ok(0)
               THEN AddMemberUserChecks(caller, userId)
               ELSE IF AddMemberAlreadyChecks(id, userId) # Ok(0)
               THEN AddMemberAlreadyChecks(id, userId)
               ELSE Ok(201)
       IN  /\ IF Succeeded(out)
              THEN /\ chitGroupMembers' = chitGroupMembers \cup
                        {addMemberToChitGroup(chitGroupMemberIdCounter, id, userId)}
                   /\ chitGroupMemberIdCounter' = chitGroupMemberIdCounter + 1
              ELSE UNCHANGED <<chitGroupMembers, chitGroupMemberIdCounter>>
           /\ resp' = Response("POST /api/chitgroups/:id/members", caller, id,
                               userId, out, {})
    /\ UNCHANGED <<users, chitGroups, auctionVars, paymentVars, mongoVars, bootVars>>

\* ------------------------------------------------- DELETE /api/chitgroups/:groupId/members/:userId
DeleteChitGroupMember(caller, groupId, userId) ==
    /\ LET chitGroup == getChitGroup(groupId)
           user == getUser(userId)
           out ==
               IF isManager(caller) # Ok(0) THEN isManager(caller)
               ELSE IF chitGroup.id = Null THEN <<404, "Chit group not found">>
               ELSE IF chitGroup.createdBy # caller
               THEN <<403, "You can only remove members from chit groups you've created">>
               ELSE IF user.id # Null /\ user.role = CustomerRole
                       /\ user.managerId # caller
               THEN <<403, "You can only manage customers assigned to you">>
               ELSE IF ~isMember(groupId, userId)
               THEN <<404, "Member not found in this chit group">>
               ELSE Ok(204)
       IN  /\ chitGroupMembers' =
                IF Succeeded(out) THEN removeMemberFromChitGroup(groupId, userId)
                ELSE chitGroupMembers
           /\ resp' = Response("DELETE /api/chitgroups/:groupId/members/:userId",
                               caller, groupId, userId, out, {})
    /\ UNCHANGED <<users, chitGroups, chitGroupMemberIdCounter, auctionVars,
                   paymentVars, mongoVars,
                   bootVars>>

\* ------------------------------------------------- GET /api/chitgroups/:id/members
GetChitGroupMembers(caller, id) ==
    /\ LET chitGroup == getChitGroup(id)
           out ==
               IF ~isAuthenticated(caller) THEN <<401, "Unauthorized">>
               ELSE IF chitGroup.id = Null THEN <<404, "Chit group not found">>
               ELSE IF users[caller].role = ManagerRole
               THEN (IF chitGroup.createdBy # caller
                     THEN <<403, "You can only view members of chit groups you've created">>
                     ELSE Ok(200))
               ELSE (IF ~isMember(id, caller)
                     THEN <<403, "You are not a member of this chit group">>
                     ELSE Ok(200))
       IN  resp' = Response("GET /api/chitgroups/:id/members", caller, id, 0, out, {})
    /\ UNCHANGED <<users, chitGroups, memberVars, auctionVars, paymentVars, mongoVars,
                   bootVars>>

\* ------------------------------------------------- GET /api/chitgroups/:id/auctions
\* a mutant of GetChitGroupAuctions: the handler without its checks on the caller
GetChitGroupAuctionsUnchecked(caller, id) ==
    /\ LET out ==
               IF ~isAuthenticated(caller) THEN <<401, "Unauthorized">>
               ELSE IF getChitGroup(id).id = Null THEN <<404, "Chit group not found">>
               ELSE Ok(200)
       IN  resp' = Response("GET /api/chitgroups/:id/auctions", caller, id, 0, out, {})
    /\ UNCHANGED <<users, chitGroups, memberVars, auctionVars, paymentVars, mongoVars,
                   bootVars>>

GetChitGroupAuctions(caller, id) ==
    /\ LET chitGroup == getChitGroup(id)
           out ==
               IF ~isAuthenticated(caller) THEN <<401, "Unauthorized">>
               ELSE IF chitGroup.id = Null THEN <<404, "Chit group not found">>
               ELSE IF users[caller].role = ManagerRole
               THEN (IF chitGroup.createdBy # caller
                     THEN <<403, "You can only view auctions of chit groups you've created">>
                     ELSE Ok(200))
               ELSE (IF ~isMember(id, caller)
                     THEN <<403, "You are not a member of this chit group">>
                     ELSE Ok(200))
       IN  resp' = Response("GET /api/chitgroups/:id/auctions", caller, id, 0, out, {})
    /\ UNCHANGED <<users, chitGroups, memberVars, auctionVars, paymentVars, mongoVars,
                   bootVars>>

\* ------------------------------------------------- GET /api/auctions/:id/bids
GetAuctionBids(caller, id) ==
    /\ LET out ==
               IF ~isAuthenticated(caller) THEN <<401, "Unauthorized">>
               ELSE IF getAuction(id).id = Null THEN <<404, "Auction not found">>
               ELSE Ok(200)
       IN  resp' = Response("GET /api/auctions/:id/bids", caller, id, 0, out, {})
    /\ UNCHANGED <<users, chitGroups, memberVars, auctionVars, paymentVars, mongoVars,
                   bootVars>>

\* ------------------------------------------------- POST /api/chitgroups/:id/auctions
PostChitGroupAuctions(caller, id, valid, status, winnerUserId, winningBid) ==
    /\ Len(auctions) < MaxAuctions
    /\ LET out ==
               IF isManager(caller) # Ok(0) THEN isManager(caller)
               ELSE IF getChitGroup(id).id = Null THEN <<404, "Chit group not found">>
               ELSE IF ~valid THEN validateRequest(valid)
               ELSE Ok(201)
       IN  /\ auctions' =
                IF Succeeded(out)
                THEN Append(auctions, createAuction(id, status, winnerUserId, winningBid))
                ELSE auctions
           /\ resp' = Response("POST /api/chitgroups/:id/auctions", caller, id, 0,
                               out, {})
    /\ UNCHANGED <<users, chitGroups, memberVars, bids, paymentVars, mongoVars,
                   bootVars>>

\* ------------------------------------------------- PUT /api/auctions/:id
PutAuction(caller, id, valid, auctionData) ==
    /\ LET out ==
               IF isManager(caller) # Ok(0) THEN isManager(caller)
               ELSE IF getAuction(id).id = Null THEN <<404, "Auction not found">>
               ELSE IF ~valid THEN validateRequest(valid)
               ELSE Ok(200)
       IN  /\ auctions' = IF Succeeded(out) THEN updateAuction(id, auctionData)
                          ELSE auctions
           /\ resp' = Response("PUT /api/auctions/:id", caller, id, 0, out, {})
    /\ UNCHANGED <<users, chitGroups, memberVars, bids, paymentVars, mongoVars,
                   bootVars>>

\* ------------------------------------------------- POST /api/auctions/:id/bids
\* a mutant of BidStatusChecks: the handler without its status check
BidStatusChecksSkipped(auction) ==
    Ok(0)

\* the check on the auction's status
BidStatusChecks(auction) ==
    IF auction.status # "scheduled"
    THEN <<400, "Cannot place bid on a completed or cancelled auction">>
    ELSE Ok(0)

PostAuctionBids(caller, id, valid) ==
    /\ Len(bids) < MaxBids
    /\ LET auction == getAuction(id)
           out ==
               IF ~isAuthenticated(caller) THEN <<401, "Unauthorized">>
               ELSE IF auction.id = Null THEN <<404, "Auction not found">>
               ELSE IF BidStatusChecks(auction) # Ok(0)
               THEN BidStatusChecks(auction)
               ELSE IF users[caller].role = CustomerRole
                       /\ ~isMember(auction.chitGroupId, caller)
               THEN <<403, "You are not a member of this chit group">>
               ELSE IF ~valid THEN validateRequest(valid)
               ELSE Ok(201)
       IN  /\ bids' = IF Succeeded(out) THEN Append(bids, createBid(id, caller))
                      ELSE bids
           /\ resp' = Response("POST /api/auctions/:id/bids", caller, id, 0, out, {})
    /\ UNCHANGED <<users, chitGroups, memberVars, auctions, paymentVars, mongoVars,
                   bootVars>>

\* ------------------------------------------------- POST /api/payments
\* a mutant of PaymentMemberChecks: the handler without its membership check
PaymentMemberChecksSkipped(chitGroupId, userId) ==
    Ok(0)

\* the check that the body's user is a member of the body's chit group
PaymentMemberChecks(chitGroupId, userId) ==
    IF ~isMember(chitGroupId, userId)
    THEN <<400, "User is not a member of this chit group">>
    ELSE Ok(0)

\* every check of the handler, Ok(0) when it goes on to createPayment
PaymentChecks(caller, valid, chitGroupId, userId) ==
    IF isManager(caller) # Ok(0) THEN isManager(caller)
    ELSE IF ~valid THEN validateRequest(valid)
    ELSE IF getChitGroup(chitGroupId).id = Null
    THEN <<404, "Chit group not found">>
    ELSE IF getUser(userId).id = Null THEN <<404, "User not found">>
    ELSE PaymentMemberChecks(chitGroupId, userId)

\* a mutant of PaymentNotification: the notification goes to the caller
PaymentNotificationToCaller(caller, userId) ==
    createNotification(caller, "payment")

\* the notification the handler creates after the payment
PaymentNotification(caller, userId) ==
    createNotification(userId, "payment")

PostPayments(caller, valid, chitGroupId, userId, status) ==
    /\ Len(payments) < MaxPayments
    /\ LET checks == PaymentChecks(caller, valid, chitGroupId, userId)
           out == IF checks # Ok(0) THEN checks ELSE Ok(201)
       IN  /\ IF Succeeded(out)
              THEN /\ payments' =
                        Append(payments, createPayment(chitGroupId, userId, status))
                   /\ notifications' =
                        Append(notifications, PaymentNotification(caller, userId))
              ELSE UNCHANGED <<payments, notifications>>
           /\ resp' = Response("POST /api/payments", caller, chitGroupId, userId,
                               out, {})
    /\ UNCHANGED <<users, chitGroups, memberVars, auctionVars, mongoVars, bootVars>>

\* the same request when storage.createNotification throws (the database
\* refuses the write): createPayment has returned, the catch block answers
PostPaymentsNotificationFails(caller, chitGroupId, userId, status) ==
    /\ Len(payments) < MaxPayments
    /\ PaymentChecks(caller, TRUE, chitGroupId, userId) = Ok(0)
    /\ payments' = Append(payments, createPayment(chitGroupId, userId, status))
    /\ resp' = Response("POST /api/payments", caller, chitGroupId, userId,
                        <<500, "Failed to create payment">>, {})
    /\ UNCHANGED <<users, chitGroups, memberVars, auctionVars, notifications,
                   mongoVars,
                   bootVars>>

\* ------------------------------------------------- PUT /api/payments/:id
\* req.body goes to the store as it is
PutPayment(caller, id, paymentData) ==
    /\ LET out ==
               IF isManager(caller) # Ok(0) THEN isManager(caller)
               ELSE IF id \notin 1..Len(payments) THEN <<404, "Payment not found">>
               ELSE Ok(200)
       IN  /\ payments' = IF Succeeded(out) THEN updatePayment(id, paymentData)
                          ELSE payments
           /\ resp' = Response("PUT /api/payments/:id", caller, id, 0, out, {})
    /\ UNCHANGED <<users, chitGroups, memberVars, auctionVars, notifications,
                   mongoVars,
                   bootVars>>

\* ------------------------------------------------- GET /api/notifications
GetNotifications(caller) ==
    /\ resp' = Response("GET /api/notifications", caller, 0, 0,
                        IF ~isAuthenticated(caller) THEN <<401, "Unauthorized">>
                        ELSE Ok(200), {})
    /\ UNCHANGED <<users, chitGroups, memberVars, auctionVars, paymentVars, mongoVars,
                   bootVars>>

\* ------------------------------------------------- POST /api/notifications/:id/read
PostNotificationRead(caller, id) ==
    /\ LET marked == markNotificationAsRead(id)
           out == IF ~isAuthenticated(caller) THEN <<401, "Unauthorized">>
                  ELSE IF ~marked.success THEN <<404, "Notification not found">>
                  ELSE Ok(204)
       IN  /\ notifications' = IF isAuthenticated(caller) THEN marked.notifications
                               ELSE notifications
           /\ resp' = Response("POST /api/notifications/:id/read", caller, id, 0,
                               out, {})
    /\ UNCHANGED <<users, chitGroups, memberVars, auctionVars, payments, mongoVars,
                   bootVars>>

\* the same handler over MongoStorage
PostNotificationReadOnMongo(caller, id) ==
    /\ LET marked == MongoMarkNotificationAsRead(id)
           out == IF ~isAuthenticated(caller) THEN <<401, "Unauthorized">>
                  ELSE IF ~marked.success THEN <<404, "Notification not found">>
                  ELSE Ok(204)
       IN  /\ notifications' = IF isAuthenticated(caller) THEN marked.notifications
                               ELSE notifications
           /\ resp' = Response("POST /api/notifications/:id/read", caller, id, 0,
                               out, {})
    /\ UNCHANGED <<users, chitGroups, memberVars, auctionVars, payments, mongoVars,
                   bootVars>>

\* ------------------------------------------------- POST /api/chitgroups/:id/members on MongoStorage
\* One step per await of the handler.  pc names the store call the request
\* waits for; memberId is the id getNextSequence gave it.
Idle == [pc |-> "idle", caller |-> Anonymous, id |-> 0, userId |-> 0,
         valid |-> TRUE, memberId |-> 0]
RequestIds == 1..MaxRequests

\* a mutant of getNextSequence: the count is set, not incremented
getNextSequenceSet(modelName) ==
    [Counter EXCEPT ![modelName] = 1]

\* getNextSequence: findOneAndUpdate with $inc, one atomic step of the database
getNextSequence(modelName) ==
    [Counter EXCEPT ![modelName] = @ + 1]

Respond(r, out) ==
    /\ requests' = [requests EXCEPT ![r].pc = "done"]
    /\ resp' = Response("POST /api/chitgroups/:id/members", requests[r].caller,
                        requests[r].id, requests[r].userId, out, {})

\* the request arrives and passes isManager
AddMemberArrive(r, caller, id, valid, userId) ==
    /\ requests[r].pc = "idle"
    /\ IF isManager(caller) # Ok(0)
       THEN /\ requests' = [requests EXCEPT ![r] =
                   [Idle EXCEPT !.pc = "done", !.caller = caller, !.id = id,
                                !.userId = userId, !.valid = valid]]
            /\ resp' = Response("POST /api/chitgroups/:id/members", caller, id,
                                userId, isManager(caller), {})
       ELSE /\ requests' = [requests EXCEPT ![r] =
                   [Idle EXCEPT !.pc = "getChitGroup", !.caller = caller, !.id = id,
                                !.userId = userId, !.valid = valid]]
            /\ UNCHANGED resp
    /\ UNCHANGED <<users, chitGroups, memberVars, auctionVars, paymentVars, Counter,
                   bootVars>>

\* await storage.getChitGroup, then the ownership check and validateRequest
AddMemberGetChitGroup(r) ==
    /\ requests[r].pc = "getChitGroup"
    /\ LET out == AddMemberGroupChecks(requests[r].caller, requests[r].id,
                                       requests[r].valid)
       IN  IF out # Ok(0) THEN Respond(r, out)
           ELSE /\ requests' = [requests EXCEPT ![r].pc = "getUser"]
                /\ UNCHANGED resp
    /\ UNCHANGED <<users, chitGroups, memberVars, auctionVars, paymentVars, Counter,
                   bootVars>>

\* await storage.getUser, then the managed-customer check
AddMemberGetUser(r) ==
    /\ requests[r].pc = "getUser"
    /\ LET out == AddMemberUserChecks(requests[r].caller, requests[r].userId)
       IN  IF out # Ok(0) THEN Respond(r, out)
           ELSE /\ requests' = [requests EXCEPT ![r].pc = "getChitGroupMembers"]
                /\ UNCHANGED resp
    /\ UNCHANGED <<users, chitGroups, memberVars, auctionVars, paymentVars, Counter,
                   bootVars>>

\* await storage.getChitGroupMembers, then isAlreadyMember
AddMemberGetChitGroupMembers(r) ==
    /\ requests[r].pc = "getChitGroupMembers"
    /\ LET out == AddMemberAlreadyChecks(requests[r].id, requests[r].userId)
       IN  IF out # Ok(0) THEN Respond(r, out)
           ELSE /\ requests' = [requests EXCEPT ![r].pc = "getNextSequence"]
                /\ UNCHANGED resp
    /\ UNCHANGED <<users, chitGroups, memberVars, auctionVars, paymentVars, Counter,
                   bootVars>>

\* MongoStorage.addMemberToChitGroup: await getNextSequence('ChitGroupMember')
AddMemberGetNextSequence(r) ==
    /\ requests[r].pc = "getNextSequence"
    /\ Counter' = getNextSequence("ChitGroupMember")
    /\ requests' = [requests EXCEPT ![r].pc = "save",
                                    ![r].memberId = Counter'["ChitGroupMember"]]
    /\ UNCHANGED <<users, chitGroups, memberVars, auctionVars, paymentVars, resp,
                   bootVars>>

\* MongoStorage.addMemberToChitGroup: await newMember.save(), then 201
AddMemberSave(r) ==
    /\ requests[r].pc = "save"
    /\ chitGroupMembers' = chitGroupMembers \cup
          {addMemberToChitGroup(requests[r].memberId, requests[r].id,
                                requests[r].userId)}
    /\ Respond(r, Ok(201))
    /\ UNCHANGED <<users, chitGroups, chitGroupMemberIdCounter, auctionVars,
                   paymentVars, Counter,
                   bootVars>>

\* ------------------------------------------------- POST /api/register and /api/customers, request by request
\* Both handlers look the username up, then await scrypt, which runs off the
\* event loop, then call createUser: other requests run in between.  pc names
\* what the request waits for; user is what it will pass to createUser.
RegisterRespond(r, op, out) ==
    /\ requests' = [requests EXCEPT ![r] = [pc |-> "done", op |-> op]]
    /\ resp' = Response(op, requests[r].caller, 0, 0, out, {})

\* POST /api/register up to await hashPassword
RegisterArrive(r, caller, username, password, salt, role, managerId) ==
    /\ requests[r].pc = "idle"
    /\ LET auth == isAuthenticated(caller)
           callerIsManager == auth /\ users[caller].role = ManagerRole
           out ==
               IF auth /\ ~callerIsManager
               THEN <<403, "Only managers can register new users">>
               ELSE IF role = CustomerRole /\ ~callerIsManager
               THEN <<403, "Only managers can create customer accounts">>
               ELSE IF role = ManagerRole /\ auth
               THEN <<403, "Cannot create manager accounts while logged in">>
               ELSE IF getUserByUsername(username) # {}
               THEN <<400, "Username already exists">>
               ELSE Ok(0)
       IN  IF out # Ok(0)
           THEN /\ requests' = [requests EXCEPT ![r] =
                       [pc |-> "done", op |-> "POST /api/register"]]
                /\ resp' = Response("POST /api/register", caller, 0, 0, out, {})
           ELSE /\ requests' = [requests EXCEPT ![r] =
                       [pc |-> "hashPassword", op |-> "POST /api/register",
                        caller |-> caller, username |-> username,
                        password |-> hashPassword(password, salt),
                        role |-> role, managerId |-> managerId]]
                /\ UNCHANGED resp
    /\ UNCHANGED <<users, chitGroups, memberVars, auctionVars, paymentVars, Counter,
                   bootVars>>

\* POST /api/customers up to await hashPassword
CustomersArrive(r, caller, username, password, salt, valid) ==
    /\ requests[r].pc = "idle"
    /\ LET out ==
               IF isManager(caller) # Ok(0) THEN isManager(caller)
               ELSE IF ~valid THEN validateRequest(valid)
               ELSE IF getUserByUsername(username) # {}
               THEN <<400, "Username already exists">>
               ELSE Ok(0)
       IN  IF out # Ok(0)
           THEN /\ requests' = [requests EXCEPT ![r] =
                       [pc |-> "done", op |-> "POST /api/customers"]]
                /\ resp' = Response("POST /api/customers", caller, 0, 0, out, {})
           ELSE /\ requests' = [requests EXCEPT ![r] =
                       [pc |-> "hashPassword", op |-> "POST /api/customers",
                        caller |-> caller, username |-> username,
                        password |-> hashPassword(password, salt),
                        role |-> CustomerRole, managerId |-> caller]]
                /\ UNCHANGED resp
    /\ UNCHANGED <<users, chitGroups, memberVars, auctionVars, paymentVars, Counter,
                   bootVars>>

\* scrypt has answered: MemStorage.createUser, then 201
CreateUserAfterHash(r) ==
    /\ requests[r].pc = "hashPassword"
    /\ Len(users) < MaxUsers
    /\ users' = Append(users, createUser(requests[r].username, requests[r].password,
                                         requests[r].role, requests[r].managerId))
    /\ RegisterRespond(r, requests[r].op, Ok(201))
    /\ UNCHANGED <<chitGroups, memberVars, auctionVars, paymentVars, Counter, bootVars>>

\* ------------------------------------------------- process start
dataVars == <<users, chitGroups, memberVars, auctionVars, paymentVars, mongoVars>>

\* the 4 s timer of the constructor fires, unless clearTimeout got there first
ConnectionTimeout ==
    /\ connectionTimeout = "pending"
    /\ connectionTimeout' = "fired"
    /\ connectionStatus' = IF connectionStatus = "connecting" THEN "failed"
                           ELSE connectionStatus
    /\ UNCHANGED <<dataVars, connectToMongoDB, fallbackTimer, fallbackInstalled,
                   mongoReachable, resp>>

\* connectToMongoDB().then(...)
ConnectResolves ==
    /\ connectToMongoDB = "pending" /\ mongoReachable
    /\ connectToMongoDB' = "resolved"
    /\ connectionTimeout' = IF connectionTimeout = "pending" THEN "cleared"
                            ELSE connectionTimeout
    /\ connectionStatus' = "connected"
    /\ UNCHANGED <<dataVars, fallbackTimer, fallbackInstalled, mongoReachable, resp>>

\* connectToMongoDB().catch(...)
ConnectRejects ==
    /\ connectToMongoDB = "pending" /\ ~mongoReachable
    /\ connectToMongoDB' = "rejected"
    /\ connectionTimeout' = IF connectionTimeout = "pending" THEN "cleared"
                            ELSE connectionTimeout
    /\ connectionStatus' = "failed"
    /\ UNCHANGED <<dataVars, fallbackTimer, fallbackInstalled, mongoReachable, resp>>

\* a mutant of FallbackTimer: the timer fires and installs nothing
FallbackTimerIdle ==
    /\ fallbackTimer = "pending" /\ connectionTimeout # "pending"
    /\ fallbackTimer' = "fired"
    /\ UNCHANGED <<dataVars, connectionStatus, connectionTimeout, connectToMongoDB,
                   fallbackInstalled, mongoReachable, resp>>

\* the 10 s timer of storage.ts; it was set after the 4 s one and for longer,
\* so it fires after the 4 s one has fired or been cleared
FallbackTimer ==
    /\ fallbackTimer = "pending" /\ connectionTimeout # "pending"
    /\ IF connectionStatus = "failed"
       THEN fallbackInstalled' = TRUE /\ fallbackTimer' = "fired"
       ELSE IF connectionStatus = "connected"
       THEN fallbackInstalled' = fallbackInstalled /\ fallbackTimer' = "fired"
       ELSE fallbackInstalled' = fallbackInstalled /\ fallbackTimer' = "extended"
    /\ UNCHANGED <<dataVars, connectionStatus, connectionTimeout, connectToMongoDB,
                   mongoReachable, resp>>

\* the nested 10 s timer, set when the status is still 'connecting'
ExtendedFallbackTimer ==
    /\ fallbackTimer = "extended"
    /\ fallbackTimer' = "fired"
    /\ fallbackInstalled' = IF connectionStatus # "connected" THEN TRUE
                            ELSE fallbackInstalled
    /\ UNCHANGED <<dataVars, connectionStatus, connectionTimeout, connectToMongoDB,
                   mongoReachable, resp>>

\* the environment: the database stops answering
MongoBecomesUnreachable ==
    /\ mongoReachable
    /\ mongoReachable' = FALSE
    /\ UNCHANGED <<dataVars, connectionStatus, connectionTimeout, connectToMongoDB,
                   fallbackTimer, fallbackInstalled, resp>>

\* a store call is answered: by the MemStorage whose methods were copied over
\* storage's, or by the connected database
StoreAnswers ==
    fallbackInstalled \/ (connectToMongoDB = "resolved" /\ mongoReachable)

\* a store call rejects: the methods are MongoStorage's and the database does
\* not answer
StoreRejects ==
    ~fallbackInstalled /\ ~mongoReachable

\* POST /api/register when storage.getUserByUsername rejects: next(error)
PostRegisterStoreRejects(caller) ==
    /\ StoreRejects
    /\ resp' = Response("POST /api/register", caller, 0, 0,
                        <<500, "Internal Server Error">>, {})
    /\ UNCHANGED <<dataVars, bootVars>>

\* GET /api/chitgroups when the store call rejects: the catch block
GetChitGroupsStoreRejects(caller) ==
    /\ StoreRejects
    /\ isAuthenticated(caller)
    /\ resp' = Response("GET /api/chitgroups", caller, 0, 0,
                        <<500, "Failed to fetch chit groups">>, {})
    /\ UNCHANGED <<dataVars, bootVars>>

\* ------------------------------------------------------------------ Init
\* the stores as their constructors leave them, no request handled yet
Init ==
    /\ users = <<>>
    /\ chitGroups = <<>>
    /\ chitGroupMembers = {}
    /\ chitGroupMemberIdCounter = 1
    /\ auctions = <<>>
    /\ bids = <<>>
    /\ payments = <<>>
    /\ notifications = <<>>
    /\ Counter = [model \in {"ChitGroupMember"} |-> 0]
    /\ requests = [r \in RequestIds |-> Idle]
    /\ connectionStatus = "connecting"
    /\ connectionTimeout = "pending"
    /\ connectToMongoDB = "pending"
    /\ fallbackTimer = "pending"
    /\ fallbackInstalled = FALSE
    /\ mongoReachable = TRUE
    /\ resp = Response("start", Anonymous, 0, 0, Ok(0), {})

\* ------------------------------------------------- chit groups and their listings
Next ==
    \/ \E c \in Callers, n \in Usernames, r \in BodyRoles :
          \E m \in {Null, c} : PostRegister(c, n, FirstPassword, FirstSalt, r, m)
    \/ \E c \in Callers, n \in Usernames, v \in BOOLEAN :
          PostCustomers(c, n, FirstPassword, FirstSalt, v)
    \/ \E c \in Callers : GetChitGroups(c)
    \/ \E c \in Callers, g \in GroupIds : GetChitGroup(c, g)
    \/ \E c \in Callers : GetDebugChitgroupMembers(c)
    \/ \E c \in Callers, v \in BOOLEAN, d \in OrdinaryChitGroupBodies :
          PostChitGroups(c, v, d)
    \/ \E c \in Callers, g \in GroupIds, v \in BOOLEAN, d \in IsActivePatches :
          PutChitGroup(c, g, v, d)

Spec == Init /\ [][Next]_vars

\* ------------------------------------------------- a deployment
\* Two managers register, then they create customers, then chit groups,
\* one request at a time; the requests under study follow.
Deployed ==
    Len(users) = MaxUsers /\ Len(chitGroups) = MaxGroups

SetUp ==
    \/ Len(users) < 2
       /\ PostRegister(Anonymous, Len(users) + 1, FirstPassword, FirstSalt,
                       ManagerRole, Null)
    \/ Len(users) >= 2
       /\ \E c \in Managers :
              PostCustomers(c, Len(users) + 1, FirstPassword, FirstSalt, TRUE)
    \/ Len(users) = MaxUsers
       /\ \E c \in Managers, d \in {b \in OrdinaryChitGroupBodies : b.isActive} :
              PostChitGroups(c, TRUE, d)

\* managers enrol customers
Enrol ==
    Deployed /\ \E c \in Managers, g \in GroupIds, u \in Customers :
                    PostChitGroupMembers(c, g, TRUE, u)

\* ------------------------------------------------- the numbers of a chit group
NextChitGroups ==
    \/ SetUp
    \/ Len(users) = MaxUsers
       /\ \E c \in Managers, v \in BOOLEAN, d \in ChitGroupBodies :
             PostChitGroups(c, v, d)
    \/ Deployed /\ \E c \in Managers, g \in GroupIds, v \in BOOLEAN,
                      d \in ChitGroupPatches : PutChitGroup(c, g, v, d)

SpecChitGroups == Init /\ [][NextChitGroups]_vars

\* ------------------------------------------------- passwords
NextPasswords ==
    \/ SetUp
    \/ Len(users) = MaxUsers
       /\ \E u \in {Null} \cup UserIds, c \in {Null} \cup Passwords,
             n \in {Null} \cup Passwords, s \in Salts :
             PostUsersResetPassword(u, c, n, s)
    \/ Len(users) = MaxUsers
       /\ \E c \in Callers, n \in Passwords, s \in Salts : PostResetPassword(c, n, s)
    \/ Len(users) = MaxUsers
       /\ \E n \in 1..(MaxUsers + 1), p \in Passwords : PostLogin(n, p)

SpecPasswords == Init /\ [][NextPasswords]_vars

\* ------------------------------------------------- memberships
NextMembers ==
    \/ SetUp
    \/ Deployed /\ \E c \in Callers, g \in GroupIds, v \in BOOLEAN, u \in UserIds :
                      PostChitGroupMembers(c, g, v, u)
    \/ Deployed /\ \E c \in Callers, g \in GroupIds, u \in UserIds :
                      DeleteChitGroupMember(c, g, u)

SpecMembers == Init /\ [][NextMembers]_vars

\* ------------------------------------------------- auctions and bids
\* the bodies a client sends to PUT /api/auctions/:id: a status, the
\* winner fields, or any part of them; the auction stays in its chit group
AuctionPatches ==
    [chitGroupId : {Absent},
     status : {AbsentStatus} \cup AuctionStatuses,
     winnerUserId : {Absent, Null} \cup Customers,
     winningBid : {Absent, Null, 1}]

NextAuctions ==
    \/ SetUp
    \/ Enrol
    \/ Deployed /\ \E c \in Callers, g \in GroupIds, v \in BOOLEAN,
                      s \in AuctionStatuses, w \in {Null} \cup Customers,
                      b \in {Null, 1} :
                      PostChitGroupAuctions(c, g, v, s, w, b)
    \/ Deployed /\ \E c \in Callers, a \in AuctionIds, v \in BOOLEAN :
                      \E d \in IF v THEN AuctionPatches
                               ELSE {CHOOSE p \in AuctionPatches : TRUE} :
                         PutAuction(c, a, v, d)
    \/ Deployed /\ \E c \in Callers, a \in AuctionIds, v \in BOOLEAN :
                      PostAuctionBids(c, a, v)

SpecAuctions == Init /\ [][NextAuctions]_vars

\* ------------------------------------------------- payments
\* the bodies a client sends to PUT /api/payments/:id
PaymentPatches ==
    [id : {Absent} \cup (1..MaxPayments + 1),
     chitGroupId : {Absent} \cup GroupIds,
     userId : {Absent} \cup UserIds,
     status : {AbsentStatus, "paid", "pending"}]

NextPayments ==
    \/ SetUp
    \/ Enrol
    \/ Deployed /\ \E c \in Callers, v \in BOOLEAN, g \in GroupIds, u \in UserIds,
                      s \in {"paid", "pending"} : PostPayments(c, v, g, u, s)
    \/ Deployed /\ \E c \in Callers, p \in PaymentIds, d \in PaymentPatches :
                      PutPayment(c, p, d)

SpecPayments == Init /\ [][NextPayments]_vars

\* ------------------------------------------------- payments on a store that can fail
NextPaymentsFaulty ==
    \/ NextPayments
    \/ Deployed /\ \E c \in Callers, g \in GroupIds, u \in UserIds,
                      s \in {"paid", "pending"} :
                      PostPaymentsNotificationFails(c, g, u, s)

SpecPaymentsFaulty == Init /\ [][NextPaymentsFaulty]_vars

\* ------------------------------------------------- what customers and managers read
NextReads ==
    \/ SetUp
    \/ Enrol
    \/ Deployed /\ \E c \in Managers, g \in GroupIds, u \in Customers :
                      DeleteChitGroupMember(c, g, u)
    \/ Deployed /\ \E c \in Managers, g \in GroupIds :
                      PostChitGroupAuctions(c, g, TRUE, "scheduled", Null, Null)
    \/ Deployed /\ \E c \in Callers : GetChitGroups(c)
    \/ Deployed /\ \E c \in Callers : GetChitGroupsOnMongo(c)
    \/ Deployed /\ \E c \in Callers, g \in GroupIds : GetChitGroup(c, g)
    \/ Deployed /\ \E c \in Callers, g \in GroupIds : GetChitGroupMembers(c, g)
    \/ Deployed /\ \E c \in Callers, g \in GroupIds : GetChitGroupAuctions(c, g)
    \/ Deployed /\ \E c \in Callers, a \in AuctionIds : GetAuctionBids(c, a)

SpecReads == Init /\ [][NextReads]_vars

\* ------------------------------------------------- notifications
NotificationIds == 1..(MaxPayments + 1)

NextNotifications ==
    \/ SetUp
    \/ Enrol
    \/ Deployed /\ \E c \in Managers, g \in GroupIds, u \in Customers :
                      PostPayments(c, TRUE, g, u, "paid")
    \/ Deployed /\ \E c \in Callers : GetNotifications(c)
    \/ Deployed /\ \E c \in Callers, n \in NotificationIds : PostNotificationRead(c, n)
    \/ Deployed /\ \E c \in Callers, n \in NotificationIds :
                      PostNotificationReadOnMongo(c, n)

SpecNotifications == Init /\ [][NextNotifications]_vars

\* ------------------------------------------------- concurrent registrations on MemStorage
\* the first manager registers alone; the requests under study follow
NextRegisterRace ==
    \/ Len(users) = 0
       /\ PostRegister(Anonymous, 1, FirstPassword, FirstSalt, ManagerRole, Null)
    \/ Len(users) > 0
       /\ \E r \in RequestIds, c \in Callers, n \in 1..2,
             o \in {ManagerRole, CustomerRole} :
             RegisterArrive(r, c, n, FirstPassword, FirstSalt, o, c)
    \/ Len(users) > 0
       /\ \E r \in RequestIds, c \in Callers, n \in 1..2, v \in BOOLEAN :
             CustomersArrive(r, c, n, FirstPassword, FirstSalt, v)
    \/ \E r \in RequestIds : CreateUserAfterHash(r)

SpecRegisterRace == Init /\ [][NextRegisterRace]_vars

\* ------------------------------------------------- requests from process start on
\* ExtendedFallbackTimer is no disjunct: the status is not 'connecting' when
\* FallbackTimer runs
NextBoot ==
    \/ ConnectionTimeout
    \/ ConnectResolves
    \/ ConnectRejects
    \/ FallbackTimer
    \/ MongoBecomesUnreachable
    \/ StoreAnswers /\ \E n \in Usernames :
          PostRegister(Anonymous, n, FirstPassword, FirstSalt, ManagerRole, Null)
    \/ StoreAnswers /\ \E c \in Callers : GetChitGroups(c)
    \/ PostRegisterStoreRejects(Anonymous)
    \/ \E c \in Callers : GetChitGroupsStoreRejects(c)

SpecBoot == Init /\ [][NextBoot]_vars

\* the timers of the event loop fire
SpecBootLive ==
    SpecBoot /\ WF_vars(ConnectionTimeout) /\ WF_vars(FallbackTimer)

\* ------------------------------------------------- concurrent add-member requests
NextRace ==
    \/ SetUp
    \/ Deployed /\ \E r \in RequestIds, c \in Managers, g \in GroupIds,
                      u \in UserIds : AddMemberArrive(r, c, g, TRUE, u)
    \/ \E r \in RequestIds : AddMemberGetChitGroup(r)
    \/ \E r \in RequestIds : AddMemberGetUser(r)
    \/ \E r \in RequestIds : AddMemberGetChitGroupMembers(r)
    \/ \E r \in RequestIds : AddMemberGetNextSequence(r)
    \/ \E r \in RequestIds : AddMemberSave(r)

SpecRace == Init /\ [][NextRace]_vars

\* ================================================================ claims
Rejected(r) == r.status >= 400
IsManagerCall(r, op) ==
    r.op = op /\ isManager(r.caller) = Ok(0)
MembershipsOf(S, chitGroupId, userId) ==
    {m \in S : m.chitGroupId = chitGroupId /\ m.userId = userId}
OwnerOf(chitGroupId) ==
    IF chitGroupId \in 1..Len(chitGroups) THEN chitGroups[chitGroupId].createdBy
    ELSE Null

\* C1: a listing or detail call made as a manager never returns a chit group
\* that another manager created.
C1_ManagerSeesOnlyOwnGroups ==
    (isAuthenticated(resp.caller) /\ users[resp.caller].role = ManagerRole)
        => \A g \in resp.groups : g.createdBy = resp.caller

\* C2: once an auction is completed or cancelled, every PUT /api/auctions/:id
\* on it is rejected and no step changes its status.
C2_TerminalAuctionStaysTerminal ==
    [][\A a \in 1..Len(auctions) :
          auctions[a].status \in {"completed", "cancelled"}
              => /\ auctions'[a].status = auctions[a].status
                 /\ (resp'.op = "PUT /api/auctions/:id" /\ resp'.arg = a)
                        => Rejected(resp')]_vars

\* C3: a completed auction has a winner and a winning bid; a scheduled or
\* cancelled auction has neither.
C3_WinnerFieldsMatchStatus ==
    \A a \in 1..Len(auctions) :
        /\ auctions[a].status = "completed"
              => auctions[a].winnerUserId # Null /\ auctions[a].winningBid # Null
        /\ auctions[a].status \in {"scheduled", "cancelled"}
              => auctions[a].winnerUserId = Null /\ auctions[a].winningBid = Null

\* C4: under any interleaving of add-member requests, no two membership
\* records hold the same (chitGroupId, userId) pair.
C4_MembershipPairUnique ==
    \A m \in chitGroupMembers, o \in chitGroupMembers :
        (m.chitGroupId = o.chitGroupId /\ m.userId = o.userId) => m = o

\* C5: when the owner of a group adds a user who is already a member, the
\* request is answered 400 "already a member" and stores nothing; an add that
\* succeeds stores the pair's only record; so a pair never has two records.
C5_SecondAddIsConflict ==
    [][(IsManagerCall(resp', "POST /api/chitgroups/:id/members")
        /\ OwnerOf(resp'.arg) = resp'.caller
        /\ resp'.message # "Invalid request data")
          => /\ MembershipsOf(chitGroupMembers, resp'.arg, resp'.arg2) # {}
                  => /\ resp'.status = 400
                     /\ resp'.message = "User is already a member of this chit group"
                     /\ chitGroupMembers' = chitGroupMembers
             /\ resp'.status = 201
                  => /\ MembershipsOf(chitGroupMembers, resp'.arg, resp'.arg2) = {}
                     /\ Cardinality(chitGroupMembers') = Cardinality(chitGroupMembers) + 1
             /\ Cardinality(MembershipsOf(chitGroupMembers', resp'.arg, resp'.arg2)) <= 1
      ]_vars

\* C5 witness: a second add for a stored pair was answered "already a member"
\* and the pair has its one record.
C5_Witness ==
    /\ resp.op = "POST /api/chitgroups/:id/members"
    /\ resp.status = 400
    /\ resp.message = "User is already a member of this chit group"
    /\ Cardinality(MembershipsOf(chitGroupMembers, resp.arg, resp.arg2)) = 1

\* C6: PUT /api/chitgroups/:id by a manager who did not create the group is
\* rejected and leaves the stored chit groups unchanged.
C6_PutChitGroupOwnerOnly ==
    [][(IsManagerCall(resp', "PUT /api/chitgroups/:id")
        /\ resp'.arg \in 1..Len(chitGroups)
        /\ OwnerOf(resp'.arg) # resp'.caller)
          => Rejected(resp') /\ chitGroups' = chitGroups]_vars

\* C7: POST /api/payments and PUT /api/payments/:id by a manager who did not
\* create the payment's chit group are rejected and leave the payments unchanged.
C7_PaymentsOwnerOnly ==
    [][/\ (IsManagerCall(resp', "POST /api/payments")
           /\ resp'.arg \in 1..Len(chitGroups)
           /\ OwnerOf(resp'.arg) # resp'.caller)
             => Rejected(resp') /\ payments' = payments
       /\ (IsManagerCall(resp', "PUT /api/payments/:id")
           /\ resp'.arg \in 1..Len(payments)
           /\ OwnerOf(payments[resp'.arg].chitGroupId) # resp'.caller)
             => Rejected(resp') /\ payments' = payments]_vars

\* C8: POST /api/chitgroups/:id/auctions and PUT /api/auctions/:id by a manager
\* who did not create the chit group are rejected and leave the auctions unchanged.
C8_AuctionsOwnerOnly ==
    [][/\ (IsManagerCall(resp', "POST /api/chitgroups/:id/auctions")
           /\ resp'.arg \in 1..Len(chitGroups)
           /\ OwnerOf(resp'.arg) # resp'.caller)
             => Rejected(resp') /\ auctions' = auctions
       /\ (IsManagerCall(resp', "PUT /api/auctions/:id")
           /\ resp'.arg \in 1..Len(auctions)
           /\ OwnerOf(auctions[resp'.arg].chitGroupId) # resp'.caller)
             => Rejected(resp') /\ auctions' = auctions]_vars

\* C9: every membership record ties its group to a customer whose managerId
\* is the group's creator.
C9_MembersAreOwnCustomers ==
    \A m \in chitGroupMembers :
        /\ getUser(m.userId).role = CustomerRole
        /\ getUser(m.userId).managerId = OwnerOf(m.chitGroupId)

\* C10: a bid is stored only when the acting user, whatever their role, is a
\* member of the auction's chit group.
C10_BidderIsMember ==
    [][(resp'.op = "POST /api/auctions/:id/bids" /\ bids' # bids)
          => isMember(getAuction(resp'.arg).chitGroupId, resp'.caller)]_vars

\* C11: POST /api/auctions/:id/bids on a completed or cancelled auction is
\* rejected and stores no bid, whoever calls and whatever the body is.
C11_NoBidOnTerminalAuction ==
    [][(resp'.op = "POST /api/auctions/:id/bids"
        /\ resp'.arg \in 1..Len(auctions)
        /\ auctions[resp'.arg].status \in {"completed", "cancelled"})
          => Rejected(resp') /\ bids' = bids]_vars

\* C11 witness: a member's bid on a terminal auction was answered 400 and
\* no bid is stored.
C11_Witness ==
    /\ resp.op = "POST /api/auctions/:id/bids"
    /\ resp.status = 400
    /\ resp.message = "Cannot place bid on a completed or cancelled auction"
    /\ getAuction(resp.arg).status \in {"completed", "cancelled"}
    /\ isMember(getAuction(resp.arg).chitGroupId, resp.caller)
    /\ bids = <<>>

\* C12: an auction that POST /api/chitgroups/:id/auctions has just created is
\* scheduled, whatever the body carried.
C12_CreatedAuctionIsScheduled ==
    [][(resp'.op = "POST /api/chitgroups/:id/auctions"
        /\ Len(auctions') > Len(auctions))
          => auctions'[Len(auctions')].status = "scheduled"]_vars

\* C13: POST /api/payments naming a user who has no membership record in the
\* body's chit group is rejected and leaves payments and notifications as
\* they were.
C13_PaymentForNonMemberFails ==
    [][(resp'.op = "POST /api/payments"
        /\ ~isMember(resp'.arg, resp'.arg2))
          => /\ Rejected(resp')
             /\ payments' = payments
             /\ notifications' = notifications]_vars

\* C13 witness: a manager's well-formed payment for an existing user who is
\* not a member of the existing group was answered 400, nothing stored.
C13_Witness ==
    /\ resp.op = "POST /api/payments"
    /\ resp.status = 400
    /\ resp.message = "User is not a member of this chit group"
    /\ getUser(resp.arg2).id # Null
    /\ getChitGroup(resp.arg).id # Null
    /\ ~isMember(resp.arg, resp.arg2)
    /\ payments = <<>> /\ notifications = <<>>

\* C14: a POST /api/payments answered 201 adds exactly one payment and exactly
\* one notification; the notification has type payment, is unread and is
\* addressed to the payment's user; no other store changes.
C14_PaymentAddsOneOfEach ==
    [][(resp'.op = "POST /api/payments" /\ resp'.status = 201)
          => /\ Len(payments') = Len(payments) + 1
             /\ SubSeq(payments', 1, Len(payments)) = payments
             /\ Len(notifications') = Len(notifications) + 1
             /\ SubSeq(notifications', 1, Len(notifications)) = notifications
             /\ notifications'[Len(notifications')].type = "payment"
             /\ notifications'[Len(notifications')].isRead = FALSE
             /\ notifications'[Len(notifications')].userId
                   = payments'[Len(payments')].userId
             /\ payments'[Len(payments')].userId = resp'.arg2
             /\ UNCHANGED <<users, chitGroups, memberVars, auctionVars>>]_vars

\* C14 witness: a payment was recorded by a manager for a member who is not
\* the manager, with its notification.
C14_Witness ==
    /\ resp.op = "POST /api/payments"
    /\ resp.status = 201
    /\ Len(payments) = 1 /\ Len(notifications) = 1
    /\ notifications[1].userId = payments[1].userId
    /\ payments[1].userId # resp.caller

\* C15: when the payment is written and the notification is not, the payment
\* stays and the request is still answered with success.
C15_NotificationFailureKeepsSuccess ==
    [][(resp'.op = "POST /api/payments"
        /\ Len(payments') > Len(payments)
        /\ notifications' = notifications)
          => resp'.status \in {200, 201}]_vars

\* the chit groups for which a membership record of the user exists
GroupsWithMembership(userId) ==
    {g \in getAllChitGroups :
        \E m \in chitGroupMembers : m.chitGroupId = g.id /\ m.userId = userId}

CustomerReads ==
    {"GET /api/chitgroups/:id", "GET /api/chitgroups/:id/members",
     "GET /api/chitgroups/:id/auctions"}

\* C16: GET /api/chitgroups made as a customer returns exactly the chit
\* groups in which the customer has a membership record, from both stores.
C16_CustomerListIsMemberships ==
    /\ (resp.op = "GET /api/chitgroups" /\ resp.caller \in Customers)
          => /\ resp.status = 200
             /\ resp.groups = GroupsWithMembership(resp.caller)
    /\ \A c \in Customers :
          /\ getChitGroupsByUser(c) = GroupsWithMembership(c)
          /\ MongoGetChitGroupsByUser(c) = GroupsWithMembership(c)

\* C16 witness: a customer who is a member of one chit group and not of the
\* other was answered with the one.
C16_Witness ==
    /\ resp.op = "GET /api/chitgroups" /\ resp.caller \in Customers
    /\ Cardinality(resp.groups) = 1
    /\ Len(chitGroups) = 2
    /\ \E g \in resp.groups : isMember(g.id, resp.caller)

\* C17: a customer's read of a chit group, of its members or of its auctions
\* succeeds exactly when a membership record ties the customer to the group,
\* and is answered 403 when the group exists and no such record does.
C17_CustomerReadsNeedMembership ==
    (resp.op \in CustomerReads /\ resp.caller \in Customers)
        => /\ resp.status = 200 <=> isMember(resp.arg, resp.caller)
           /\ (getChitGroup(resp.arg).id # Null /\ ~isMember(resp.arg, resp.caller))
                 => resp.status = 403

\* C17 witness: the customer's only membership, in the one chit group of the
\* customer's manager, was added and then removed; the customer's read of that
\* group is answered 403.
C17_Witness ==
    /\ resp.op \in CustomerReads /\ resp.caller \in Customers
    /\ resp.status = 403
    /\ chitGroupMembers = {} /\ chitGroupMemberIdCounter = 2
    /\ Cardinality(Customers) = 1
    /\ OwnerOf(resp.arg) = users[resp.caller].managerId
    /\ \A g \in 1..Len(chitGroups) :
          g # resp.arg => OwnerOf(g) # users[resp.caller].managerId

\* C18: GET /api/auctions/:id/bids answers a customer only if the customer is
\* a member of the auction's chit group, and a manager only if the manager
\* created that group.
C18_BidsReadersAreScoped ==
    (resp.op = "GET /api/auctions/:id/bids" /\ resp.status = 200)
        => /\ resp.caller \in Customers
                => isMember(getAuction(resp.arg).chitGroupId, resp.caller)
           /\ resp.caller \in Managers
                => OwnerOf(getAuction(resp.arg).chitGroupId) = resp.caller

\* C19: every customer's managerId is the id of a stored manager, and every
\* manager's managerId is null.
C19_ManagerIdInvariant ==
    \A u \in 1..Len(users) :
        /\ users[u].role = CustomerRole => users[u].managerId \in Managers
        /\ users[u].role = ManagerRole => users[u].managerId = Null

\* C20: POST /api/register stores a user only for an anonymous caller creating
\* a manager or a manager creating a customer; for every other caller and
\* role it is rejected and stores nothing.
C20_RegisterOnlyManagerOrCustomer ==
    [][resp'.op = "POST /api/register"
          => /\ users' # users
                  => LET user == users'[Len(users')]
                     IN  \/ resp'.caller = Anonymous /\ user.role = ManagerRole
                         \/ resp'.caller \in Managers /\ user.role = CustomerRole
             /\ Succeeded(<<resp'.status, resp'.message>>) <=> users' # users]_vars

\* C30: every stored payment keeps the id, chitGroupId and userId it was
\* created with, and its id is the key it is stored under.
C30_PaymentIdentityIsFrozen ==
    [][\A p \in 1..Len(payments) :
          /\ payments'[p].id = payments[p].id
          /\ payments'[p].chitGroupId = payments[p].chitGroupId
          /\ payments'[p].userId = payments[p].userId
          /\ payments'[p].id = p]_vars

\* C28: markNotificationAsRead returns the same value and leaves the same
\* isRead flags in the in-memory store and in the document-database store,
\* also for a notification that is already read.
C28_MarkAsReadAgreesAcrossStores ==
    \A n \in NotificationIds :
        markNotificationAsRead(n) = MongoMarkNotificationAsRead(n)

\* C29: a notification's isRead flag changes only in a request made as the
\* user the notification is addressed to, and GET /api/notifications gives a
\* caller only notifications addressed to the caller.
C29_OnlyAddresseeMarksRead ==
    [][/\ \A n \in 1..Len(notifications) :
             notifications'[n].isRead # notifications[n].isRead
                => resp'.caller = notifications[n].userId
       /\ \A u \in 1..Len(users) :
             \A n \in getNotificationsByUser(u) : n.userId = u]_vars

\* the membership ids handed out so far: stored, or held by a request
AssignedMemberIds ==
    {m.id : m \in chitGroupMembers}
        \cup {requests[r].memberId : r \in {q \in RequestIds : requests[q].memberId # 0}}

\* C26: under any interleaving of concurrent creates, every id handed out is
\* greater than all ids handed out before it, no two requests hold the same
\* id and no two stored records share an id.
C26_IdsDistinctAndIncreasing ==
    [][/\ \A r \in RequestIds :
             requests'[r].memberId # requests[r].memberId
                => \A i \in AssignedMemberIds : requests'[r].memberId > i
       /\ \A r \in RequestIds, q \in RequestIds :
             (r # q /\ requests'[r].memberId # 0)
                => requests'[r].memberId # requests'[q].memberId
       /\ \A m \in chitGroupMembers', o \in chitGroupMembers' :
             m.id = o.id => m = o]_vars

\* C26 witness: two requests are between getNextSequence and save at the
\* same time, each with its id.
C26_Witness ==
    /\ \A r \in RequestIds : requests[r].pc = "save"
    /\ requests[1].memberId # requests[2].memberId

\* C25: every stored chit group has value > 0, duration in 1..60 and
\* membersCount in 2..50.
C25_ChitGroupRanges ==
    \A g \in 1..Len(chitGroups) :
        /\ chitGroups[g].value > 0
        /\ chitGroups[g].duration \in 1..60
        /\ chitGroups[g].membersCount \in 2..50

PasswordResets ==
    {"POST /api/reset-password", "POST /api/users/:userId/reset-password"}

\* C21: whenever a user's stored password changes, the request that changed
\* it carried that user's current password and it verified against the
\* stored credential.
C21_PasswordChangeNeedsCurrent ==
    [][\A u \in 1..Len(users) :
          users'[u].password # users[u].password
             => /\ resp'.op \in PasswordResets
                /\ resp'.arg = u
                /\ comparePasswords(resp'.arg2.currentPassword, users[u].password)]_vars

C23_UsernamesUnique ==
    \A u \in 1..Len(users), v \in 1..Len(users) :
        users[u].username = users[v].username => u = v

\* C24: no request is answered with a server error because the database
\* does not answer.
C24_NoStoreErrorSurfaced ==
    resp.status # 500

\* C27: from some point on store calls are served by the connected database
\* or by the in-memory fallback; the status does not stay 'connecting', nor
\* 'failed' without the fallback.
C27_EventuallyServed ==
    <>[](fallbackInstalled \/ connectionStatus = "connected")

\* C27 witness: the connection failed and the fallback timer installed the
\* in-memory store.
C27_Witness ==
    /\ connectionStatus = "failed"
    /\ fallbackTimer = "fired"
    /\ fallbackInstalled

====
